---- MODULE Spec2Model ----
(***************************************************************************)
(* XRide backend: the orders router (checkAuth, create, list, get-by-id),  *)
(* the store it queries through executeQuery, and the application's        *)
(* middleware stack as server.js registers it.                             *)
(*                                                                         *)
(*   Spec     the orders router of routes/orders.js serving requests       *)
(*            (router.use(checkAuth), then the three handlers) against     *)
(*            the orders table of config/db.js.                            *)
(*   SpecSeq  the same router serving one request after the other, over    *)
(*            every input of the model.                                    *)
(*   SpecApp  the express application of server.js: the stack of layers    *)
(*            registered at module load and by startServer, and the        *)
(*            dispatch of requests through it.                             *)
(*   SpecWindow  the application within one window of the limiter.         *)
(*   SpecEnv  the application under every value of NODE_ENV.               *)
(*   SpecPool  the connection pool of config/db.js: startup, then the      *)
(*            queries of the requests; SpecPoolFair adds the fairness of   *)
(*            the event loop and of the store.                             *)
(***************************************************************************)
EXTENDS Integers, Sequences, FiniteSets, TLC

VARIABLES
    load,       \* the inputs requests are drawn from (fixed by Init)
    store,      \* rows of the orders table, in insertion order
    nextId,     \* the table's AUTO_INCREMENT counter
    reqs,       \* requests in flight inside the orders router, by slot
    stack,      \* app: the express layers, in registration order
    boot,       \* app: the position of startServer
    hits,       \* app: the limiter's per-IP counter of the current window
    areqs,      \* app: requests in flight through the stack, by slot
    env,        \* app: process.env.NODE_ENV (fixed by Init)
    pool,       \* db: connections borrowed per process, and the waiters
    ops         \* db: the position of each process using the pool

vars == <<load, store, nextId, reqs, stack, boot, hits, areqs, env, pool, ops>>

routerVars == <<load, store, nextId, reqs>>
appVars == <<stack, boot, hits, areqs, env>>
poolVars == <<pool, ops>>

(***************************************************************************)
(* Bounds of the model.                                                    *)
(***************************************************************************)
MaxSlots == 2
MaxOrders == 2
MaxClock == 1
\* The limiter's ceiling (max), scaled to the model.
Ceiling == 2
\* The pool's connectionLimit, scaled to the model.
ConnectionLimit == 1

Slots == 1..MaxSlots

(***************************************************************************)
(* JavaScript values as a JSON body or a query string delivers them.       *)
(* A number is an integer, or Infinity (JSON.parse("1e999")).              *)
(***************************************************************************)
Undefined == [t |-> "undefined", n |-> 0, s |-> ""]
Null == [t |-> "null", n |-> 0, s |-> ""]
Num(i) == [t |-> "number", n |-> i, s |-> ""]
Infinity == [t |-> "number", n |-> 1, s |-> "Infinity"]
NaN == [t |-> "number", n |-> 0, s |-> "NaN"]
Str(x) == [t |-> "string", n |-> 0, s |-> x]
Bool(b) == [t |-> "boolean", n |-> IF b THEN 1 ELSE 0, s |-> ""]

TypeOf(v) == v.t

IsFinite(v) == v.t = "number" /\ v.s = ""

\* !v
Falsy(v) ==
    \/ v.t = "undefined"
    \/ v.t = "null"
    \/ v.t = "boolean" /\ v.n = 0
    \/ v.t = "number" /\ v.s = "" /\ v.n = 0
    \/ v.t = "number" /\ v.s = "NaN"
    \/ v.t = "string" /\ v.s = ""

\* A faulty variant: the test against the number 0 is left out.
NotStrictlyZeroSkipped(v) == TRUE

\* v !== 0
NotStrictlyZero(v) == ~(v.t = "number" /\ v.s = "" /\ v.n = 0)

\* Number(s) for the strings of the model: a decimal literal converts, the
\* empty string is 0, anything else is NaN.
StringToNumber(x) ==
    CASE x = "" -> Num(0)
      [] x = "0" -> Num(0)
      [] x = "1" -> Num(1)
      [] x = "2" -> Num(2)
      [] x = "3" -> Num(3)
      [] x = "5" -> Num(5)
      [] x = "25" -> Num(25)
      [] x = "45" -> Num(45)
      [] x = "-5" -> Num(0 - 5)
      [] x = "1000" -> Num(1000)
      [] OTHER -> NaN

\* ToNumber, as the relational operators apply it to a non-number operand.
ToNumber(v) ==
    CASE v.t = "number" -> v
      [] v.t = "string" -> StringToNumber(v.s)
      [] v.t = "boolean" -> Num(v.n)
      [] v.t = "null" -> Num(0)
      [] OTHER -> NaN

\* a < b and a > b on two numbers; every comparison with NaN is false.
NumLess(a, b) ==
    /\ a.s # "NaN" /\ b.s # "NaN"
    /\ \/ a.s = "" /\ b.s = "" /\ a.n < b.n
       \/ a.s = "" /\ b.s = "Infinity"

NumGreater(a, b) == NumLess(b, a)

\* v < k and v > k for a body value v and a numeric literal k.
JsLess(v, k) == NumLess(ToNumber(v), Num(k))
JsGreater(v, k) == NumGreater(ToNumber(v), Num(k))

\* String.prototype.toLowerCase on the strings of the model.
ToLowerCase(x) ==
    CASE x = "DELIVERY" -> "delivery"
      [] x = "Pickup" -> "pickup"
      [] x = "PENDING" -> "pending"
      [] x = "A" -> "a"
      [] x = "B" -> "b"
      [] x = "U1" -> "u1"
      [] OTHER -> x

\* parseInt(x) for the strings of the model: the longest decimal prefix,
\* NaN when there is none.
ParseInt(x) ==
    CASE x = "12abc" -> Num(12)
      [] x = "1abc" -> Num(1)
      [] x = "1.5" -> Num(1)
      [] x = " 2" -> Num(2)
      [] x = "" -> NaN
      [] OTHER -> StringToNumber(x)

(***************************************************************************)
(* The orders table (config/db.js) under MySQL 8 in its default strict     *)
(* SQL mode, reached through mysql2's prepared statements.                 *)
(***************************************************************************)
\* The weight string of a VARCHAR value under the table's collation
\* utf8mb4_unicode_ci: letter case does not distinguish two values.
CollationKey(x) == ToLowerCase(x)

\* column = ? on a character column of the table.
SqlEq(a, b) == CollationKey(a) = CollationKey(b)

\* A bound parameter written to a DECIMAL(p, s) NOT NULL column with
\* 10^(p-s) = limit: numbers and numeric strings convert, a boolean is sent
\* as a TINYINT, everything else is refused by the strict mode.
DecimalColumn(v, limit) ==
    LET x == CASE v.t = "number" -> v
               [] v.t = "string" /\ v.s # "" -> StringToNumber(v.s)
               [] v.t = "boolean" -> Num(v.n)
               [] OTHER -> NaN
    IN IF x.s = "" /\ x.n < limit /\ x.n > 0 - limit
       THEN [ok |-> TRUE, n |-> x.n]
       ELSE [ok |-> FALSE, n |-> 0]

\* A bound parameter written to a TEXT or VARCHAR NOT NULL column.
TextColumn(v) ==
    CASE v.t = "string" -> [ok |-> TRUE, s |-> v.s]
      [] v.t = "boolean" -> [ok |-> TRUE, s |-> IF v.n = 1 THEN "1" ELSE "0"]
      [] v.t = "number" /\ v.s = "" /\ v.n = 5 -> [ok |-> TRUE, s |-> "5"]
      [] OTHER -> [ok |-> FALSE, s |-> ""]

ValidStatuses == <<"pending", "confirmed", "in_progress", "completed", "cancelled">>

\* CURRENT_TIMESTAMP at an INSERT, in seconds since the first row's: the
\* second of the latest row, or a later one (the clock has one-second
\* resolution and does not run backwards).
Timestamps(rows) ==
    IF Len(rows) = 0
    THEN {0}
    ELSE {ts \in {rows[Len(rows)].createdAt, rows[Len(rows)].createdAt + 1} :
            ts <= MaxClock}

\* INSERT INTO orders (userUid, ..., orderType, status) VALUES (?, ..., ?, 'pending')
\* with its nine bound parameters: the row the table would hold, or no row
\* when a column refuses its value.
InsertedRow(p, id, ts) ==
    LET uid == TextColumn(p[1])
        pa == TextColumn(p[2])
        da == TextColumn(p[3])
        la1 == DecimalColumn(p[4], 100)
        lo1 == DecimalColumn(p[5], 1000)
        la2 == DecimalColumn(p[6], 100)
        lo2 == DecimalColumn(p[7], 1000)
        am == DecimalColumn(p[8], 100000000)
        ty == TextColumn(p[9])
    IN [ok |-> uid.ok /\ pa.ok /\ da.ok /\ la1.ok /\ lo1.ok /\ la2.ok
                /\ lo2.ok /\ am.ok /\ ty.ok,
        row |-> [orderId |-> id, userUid |-> uid.s,
                 pickupAddress |-> pa.s, dropoffAddress |-> da.s,
                 latPickup |-> la1.n, lngPickup |-> lo1.n,
                 latDropoff |-> la2.n, lngDropoff |-> lo2.n,
                 amount |-> am.n, orderType |-> ty.s, status |-> "pending",
                 createdAt |-> ts, updatedAt |-> ts]]

\* The indexes of the rows a WHERE clause selects: where is its list of
\* "column = ?" conditions joined by AND, p the parameters bound to them.
NumParamEq(n, v) == v.t = "number" /\ v.s = "" /\ v.n = n

CondHolds(row, col, v) ==
    IF col = "orderId"
    THEN NumParamEq(row.orderId, v)
    ELSE v.t = "string" /\ SqlEq(row[col], v.s)

Matching(rows, where, p) ==
    {i \in 1..Len(rows) : \A k \in 1..Len(where) : CondHolds(rows[i], where[k], p[k])}

\* The rows of a result in the table's own (primary key) order.
RowsOf(rows, idx) == SelectSeq(rows, LAMBDA r : \E i \in idx : rows[i] = r)

\* ORDER BY createdAt DESC: every arrangement of the selected rows with
\* createdAt not increasing; rows of one second come in any order.
Arrangements(rows, idx) ==
    LET n == Cardinality(idx)
    IN {f \in [1..n -> idx] :
          /\ \A a, b \in 1..n : a # b => f[a] # f[b]
          /\ \A a, b \in 1..n : a < b => rows[f[a]].createdAt >= rows[f[b]].createdAt}

\* LIMIT lim OFFSET off of an arrangement f.
PageOf(rows, f, lim, off) ==
    LET n == Len(f)
        lo == off + 1
        hi == IF off + lim < n THEN off + lim ELSE n
    IN [k \in 1..(IF hi >= lo THEN hi - lo + 1 ELSE 0) |-> rows[f[lo + k - 1]]]

\* A row as mysql2 returns it and the handlers format it: a DECIMAL column
\* comes back as its decimal string, a TIMESTAMP as a Date that
\* toISOString() renders.
DecimalString(n) == [t |-> "string", n |-> n, s |-> "decimal"]
IsoString(ts) == [t |-> "string", n |-> ts, s |-> "iso8601"]

FormatOrder(row) ==
    [orderId |-> row.orderId, userUid |-> row.userUid,
     pickupAddress |-> row.pickupAddress, dropoffAddress |-> row.dropoffAddress,
     latPickup |-> DecimalString(row.latPickup),
     lngPickup |-> DecimalString(row.lngPickup),
     latDropoff |-> DecimalString(row.latDropoff),
     lngDropoff |-> DecimalString(row.lngDropoff),
     amount |-> DecimalString(row.amount),
     orderType |-> row.orderType, status |-> row.status,
     createdAt |-> IsoString(row.createdAt),
     updatedAt |-> IsoString(row.updatedAt)]

FormatOrders(rs) == [k \in 1..Len(rs) |-> FormatOrder(rs[k])]

(***************************************************************************)
(* Authentication: the Authorization header, the identity provider's SDK,  *)
(* verifyIdToken of config/firebase.js and checkAuth of middlewares/auth.  *)
(* A header is a sequence of characters; a token's characters are kept as  *)
(* one unit.                                                               *)
(***************************************************************************)
BearerPrefix == <<"B", "e", "a", "r", "e", "r", " ">>

NoHeader == [present |-> FALSE, v |-> <<>>]
Header(v) == [present |-> TRUE, v |-> v]

Uids == {"u1", "U1", "u2"}

TokenOf(uid) == <<"jwt", uid>>

Tokens == {TokenOf(u) : u \in Uids}
            \cup {<<"expired">>, <<"revoked">>, <<"garbage">>, <<" ">> \o TokenOf("u1")}

Headers ==
    {NoHeader, Header(<<>>), Header(BearerPrefix),
     Header(<<"B", "e", "a", "r", "e", "r">>),
     Header(<<"b", "e", "a", "r", "e", "r", " ">> \o TokenOf("u1")),
     Header(<<"B", "a", "s", "i", "c", " ">> \o TokenOf("u1"))}
    \cup {Header(BearerPrefix \o tk) : tk \in Tokens}

\* authHeader.startsWith(prefix)
StartsWith(v, prefix) ==
    Len(v) >= Len(prefix) /\ SubSeq(v, 1, Len(prefix)) = prefix

\* A faulty variant: the token is cut one character early.
Substring6(v) == SubSeq(v, 7, Len(v))

\* authHeader.substring(7)
Substring7(v) == SubSeq(v, 8, Len(v))

\* The outcomes admin.auth().verifyIdToken(token) can have: the decoded
\* token of a valid one, or an error with the provider's code; fetching the
\* provider's keys can fail for any token (an error without an auth code).
SdkOk(uid) == [ok |-> TRUE, uid |-> uid, code |-> "", message |-> ""]
SdkError(code) == [ok |-> FALSE, uid |-> "", code |-> code, message |-> "verification failed"]

AdminVerifyIdToken(token) ==
    {SdkError("network")} \cup
    (IF \E u \in Uids : token = TokenOf(u)
     THEN {SdkOk(u) : u \in {w \in Uids : token = TokenOf(w)}}
     ELSE IF token = <<"expired">> THEN {SdkError("auth/id-token-expired")}
     ELSE IF token = <<"revoked">> THEN {SdkError("auth/id-token-revoked")}
     ELSE {SdkError("auth/invalid-id-token")})

\* A faulty variant: a failed verification resolves like a successful one.
VerifyIdTokenResolving(sdk) == [sdk EXCEPT !.ok = TRUE]

\* verifyIdToken of config/firebase.js: the decoded token, or, in its catch,
\* a new Error("Invalid or expired token"), which has no code.
VerifyIdToken(sdk) ==
    IF sdk.ok
    THEN sdk
    ELSE [ok |-> FALSE, uid |-> "", code |-> "", message |-> "Invalid or expired token"]

\* A response. by names who produced it: checkAuth or a handler through
\* res.json, or "next" for an error handed to next(err), whose status is the
\* error's status, 500 when it has none.
NoPagination == [total |-> 0, limit |-> 0, offset |-> 0, hasMore |-> FALSE]

Response(status, by, error, message) ==
    [status |-> status, by |-> by, error |-> error, message |-> message,
     missing |-> <<>>, orders |-> <<>>, pagination |-> NoPagination,
     stack |-> FALSE, details |-> FALSE]

NoResponse == Response(0, "", "", "")

\* The 401 of checkAuth's catch block, by the code of the caught error.
CheckAuthFailure(err) ==
    IF err.code = "auth/id-token-expired"
    THEN Response(401, "checkAuth", "Token expired",
                  "Your session has expired. Please sign in again.")
    ELSE IF err.code = "auth/id-token-revoked"
    THEN Response(401, "checkAuth", "Token revoked",
                  "Your session has been revoked. Please sign in again.")
    ELSE IF err.code = "auth/invalid-id-token"
    THEN Response(401, "checkAuth", "Invalid token",
                  "The provided token is invalid or malformed.")
    ELSE Response(401, "checkAuth", "Authentication failed",
                  "Unable to authenticate request. Please check your token.")

\* The 401 checkAuth answers before verifying, or NoResponse when the header
\* carries a token to verify.
CheckAuthHeader(h) ==
    IF ~h.present \/ h.v = <<>>
    THEN Response(401, "checkAuth", "Authorization header missing",
                  "Please provide a valid Bearer token")
    ELSE IF ~StartsWith(h.v, BearerPrefix)
    THEN Response(401, "checkAuth", "Invalid authorization format",
                  "Authorization header must start with Bearer")
    ELSE IF Substring7(h.v) = <<>>
    THEN Response(401, "checkAuth", "Token missing",
                  "Please provide a valid Firebase ID token")
    ELSE NoResponse

(***************************************************************************)
(* Errors, and what next(err) makes of them.                               *)
(***************************************************************************)
\* createError(message, statusCode) of middlewares/errorHandler.js.
CreateError(message, statusCode) ==
    [name |-> "Error", message |-> message, status |-> statusCode, code |-> "",
     missing |-> <<>>]

\* An error thrown by the runtime or by the store's driver: it has no status.
TypeError(message) ==
    [name |-> "TypeError", message |-> message, status |-> 0, code |-> "",
     missing |-> <<>>]
StoreError ==
    [name |-> "Error", message |-> "store: query failed", status |-> 0,
     code |-> "ER_STORE", missing |-> <<>>]

\* The error express.json() hands to next for a body that is not JSON.
JsonSyntaxError ==
    [name |-> "SyntaxError", message |-> "Unexpected token in JSON", status |-> 400,
     code |-> "", missing |-> <<>>]

NoError == [name |-> "", message |-> "", status |-> 0, code |-> "", missing |-> <<>>]

\* asyncHandler: a rejected handler hands its error to next(err); the
\* response that follows carries the error's status, 500 when it has none.
AsyncHandlerCatch(err) ==
    [Response(IF err.status # 0 THEN err.status ELSE 500, "next", err.message, "")
       EXCEPT !.missing = err.missing]

(***************************************************************************)
(* POST /: validation of the body and the INSERT's parameters.             *)
(***************************************************************************)
RequiredFields ==
    <<"pickupAddress", "dropoffAddress", "latPickup", "lngPickup",
      "latDropoff", "lngDropoff", "amount", "orderType">>

ValidOrderTypes == <<"delivery", "pickup", "express", "scheduled">>

Includes(seq, x) == \E i \in 1..Len(seq) : seq[i] = x

\* requiredFields.filter((field) => !req.body[field] && req.body[field] !== 0)
MissingFields(body) ==
    SelectSeq(RequiredFields, LAMBDA f : Falsy(body[f]) /\ NotStrictlyZero(body[f]))

OutOfRange(v, bound) == JsLess(v, 0 - bound) \/ JsGreater(v, bound)

\* amount <= 0
NotPositive(v) ==
    LET x == ToNumber(v) IN x.s # "NaN" /\ (NumLess(x, Num(0)) \/ x = Num(0))

\* The error the handler throws before its try block, NoError when the body
\* passes every check.
CreateValidation(body) ==
    IF Len(MissingFields(body)) > 0
    THEN [CreateError("Missing required fields", 400)
            EXCEPT !.missing = MissingFields(body)]
    ELSE IF OutOfRange(body.latPickup, 90)
    THEN CreateError("Invalid pickup latitude. Must be between -90 and 90", 400)
    ELSE IF OutOfRange(body.lngPickup, 180)
    THEN CreateError("Invalid pickup longitude. Must be between -180 and 180", 400)
    ELSE IF OutOfRange(body.latDropoff, 90)
    THEN CreateError("Invalid dropoff latitude. Must be between -90 and 90", 400)
    ELSE IF OutOfRange(body.lngDropoff, 180)
    THEN CreateError("Invalid dropoff longitude. Must be between -180 and 180", 400)
    ELSE IF TypeOf(body.amount) # "number" \/ NotPositive(body.amount)
    THEN CreateError("Amount must be a positive number", 400)
    ELSE IF TypeOf(body.orderType) # "string"
    THEN TypeError("orderType.toLowerCase is not a function")
    ELSE IF ~Includes(ValidOrderTypes, ToLowerCase(body.orderType.s))
    THEN CreateError("Invalid order type. Must be one of: delivery, pickup, express, scheduled", 400)
    ELSE NoError

\* A faulty variant: the order type is bound as the client sent it.
InsertParamsVerbatim(uid, body) ==
    <<Str(uid), body.pickupAddress, body.dropoffAddress,
      body.latPickup, body.lngPickup, body.latDropoff, body.lngDropoff,
      body.amount, body.orderType>>

\* The parameters bound to the INSERT.
InsertParams(uid, body) ==
    <<Str(uid), body.pickupAddress, body.dropoffAddress,
      body.latPickup, body.lngPickup, body.latDropoff, body.lngDropoff,
      body.amount, Str(ToLowerCase(body.orderType.s))>>

(***************************************************************************)
(* GET /: pagination and the WHERE clause.                                 *)
(***************************************************************************)
Min(a, b) == IF a < b THEN a ELSE b
Max(a, b) == IF a > b THEN a ELSE b

\* parseInt(x) || dflt, for a query parameter x (a string, or absent and
\* then defaulted to the number dflt by the destructuring).
ParseOr(x, dflt) ==
    LET p == IF x.t = "undefined" THEN Num(dflt) ELSE ParseInt(x.s)
    IN IF Falsy(p) THEN dflt ELSE p.n

ParsedLimit(query) == Min(Max(ParseOr(query.limit, 20), 1), 100)
ParsedOffset(query) == Max(ParseOr(query.offset, 0), 0)

\* The error thrown while the conditions are built, NoError otherwise.
ListValidation(query) ==
    IF ~Falsy(query.status) /\ ~Includes(ValidStatuses, query.status.s)
    THEN CreateError("Invalid status. Must be one of: pending, confirmed, in_progress, completed, cancelled", 400)
    ELSE NoError

WhereConditions(query) ==
    <<"userUid">>
      \o (IF ~Falsy(query.status) THEN <<"status">> ELSE <<>>)
      \o (IF ~Falsy(query.orderType) THEN <<"orderType">> ELSE <<>>)

QueryParams(uid, query) ==
    <<Str(uid)>>
      \o (IF ~Falsy(query.status) THEN <<query.status>> ELSE <<>>)
      \o (IF ~Falsy(query.orderType)
          THEN <<Str(ToLowerCase(query.orderType.s))>> ELSE <<>>)

(***************************************************************************)
(* GET /:orderId                                                           *)
(***************************************************************************)
\* !orderId || isNaN(parseInt(orderId))
InvalidOrderId(orderId) == orderId = "" \/ ParseInt(orderId).s = "NaN"

(***************************************************************************)
(* The inputs requests are drawn from.                                     *)
(***************************************************************************)
NoBody ==
    [pickupAddress |-> Undefined, dropoffAddress |-> Undefined,
     latPickup |-> Undefined, lngPickup |-> Undefined,
     latDropoff |-> Undefined, lngDropoff |-> Undefined,
     amount |-> Undefined, orderType |-> Undefined]

GoodBody ==
    [pickupAddress |-> Str("A"), dropoffAddress |-> Str("B"),
     latPickup |-> Num(40), lngPickup |-> Num(0 - 74),
     latDropoff |-> Num(41), lngDropoff |-> Num(0 - 73),
     amount |-> Num(25), orderType |-> Str("DELIVERY")]

Bodies ==
    {GoodBody,
     [GoodBody EXCEPT !.latPickup = Num(0), !.orderType = Str("pickup")],
     [GoodBody EXCEPT !.latPickup = Str("45")],
     [GoodBody EXCEPT !.latPickup = Str("abc")],
     [GoodBody EXCEPT !.latPickup = Num(91)],
     [GoodBody EXCEPT !.lngDropoff = Num(0 - 181)],
     [GoodBody EXCEPT !.amount = Num(0)],
     [GoodBody EXCEPT !.amount = Str("25")],
     [GoodBody EXCEPT !.amount = Infinity],
     [GoodBody EXCEPT !.orderType = Str("ride")],
     [GoodBody EXCEPT !.orderType = Num(5)],
     [GoodBody EXCEPT !.pickupAddress = Undefined, !.amount = Null],
     NoBody,
     [GoodBody EXCEPT !.pickupAddress = Str(""), !.latPickup = Num(0),
                      !.lngDropoff = Bool(FALSE), !.orderType = Null],
     [GoodBody EXCEPT !.latPickup = Num(91), !.amount = Num(0),
                      !.orderType = Str("ride")],
     [GoodBody EXCEPT !.lngPickup = Num(181), !.latDropoff = Num(0 - 91)],
     [GoodBody EXCEPT !.dropoffAddress = Undefined, !.latPickup = Num(91)],
     [GoodBody EXCEPT !.latPickup = Str("abc"), !.amount = Num(0)]}

NoQuery ==
    [status |-> Undefined, limit |-> Undefined, offset |-> Undefined,
     orderType |-> Undefined]

Queries ==
    {NoQuery,
     [NoQuery EXCEPT !.status = Str("pending")],
     [NoQuery EXCEPT !.status = Str("bogus")],
     [NoQuery EXCEPT !.limit = Str("1")],
     [NoQuery EXCEPT !.limit = Str("0"), !.offset = Str("1")],
     [NoQuery EXCEPT !.orderType = Str("DELIVERY")],
     [NoQuery EXCEPT !.limit = Str("1000")],
     [NoQuery EXCEPT !.limit = Str("-5"), !.offset = Str("-5")],
     [NoQuery EXCEPT !.limit = Str("abc"), !.offset = Str("abc")]}

OrderIds == {"1", "2", "abc", "1abc"}

(***************************************************************************)
(* A request inside the orders router.                                     *)
(***************************************************************************)
NoSdk == [ok |-> FALSE, uid |-> "", code |-> "", message |-> ""]

NoLocals ==
    [insertId |-> 0, where |-> <<>>, params |-> <<>>,
     limit |-> 0, offset |-> 0, total |-> 0]

IdleReq ==
    [pc |-> "idle", header |-> NoHeader, verifyCalls |-> 0, verifyArg |-> <<>>,
     sdk |-> NoSdk, user |-> "", route |-> "", body |-> NoBody,
     query |-> NoQuery, orderId |-> "", st |-> NoLocals, queries |-> <<>>,
     thrown |-> NoError, resp |-> NoResponse]

\* A query executeQuery was called with.
Query(q, where, params) == [q |-> q, where |-> where, params |-> params]

Finish(req, resp) == [req EXCEPT !.pc = "done", !.resp = resp]

\* executeQuery rethrows the store's error to the handler's try block.
Thrown(req, err) == [req EXCEPT !.thrown = err]

Log(req, q) == [req EXCEPT !.queries = Append(@, q)]

\* A request reaches the router; it takes the lowest free slot.
Arrive(r) ==
    /\ reqs[r].pc = "idle"
    /\ \A q \in load.slots : q < r => reqs[q].pc # "idle"
    /\ \E h \in load.headers :
         reqs' = [reqs EXCEPT ![r] = [IdleReq EXCEPT !.pc = "checkAuth", !.header = h]]
    /\ UNCHANGED <<load, store, nextId, appVars, poolVars>>

\* checkAuth up to its await: the header checks, then the call of
\* verifyIdToken with the rest of the header.
CheckAuthStart(r) ==
    /\ reqs[r].pc = "checkAuth"
    /\ LET rej == CheckAuthHeader(reqs[r].header)
       IN reqs' = [reqs EXCEPT ![r] =
                     IF rej # NoResponse
                     THEN Finish(@, rej)
                     ELSE [@ EXCEPT !.pc = "verifying",
                                     !.verifyCalls = @ + 1,
                                     !.verifyArg = Substring7(reqs[r].header.v)]]
    /\ UNCHANGED <<load, store, nextId, appVars, poolVars>>

\* checkAuth after its await: req.user is set and next() called, or the
\* catch block answers 401.
CheckAuthSettle(r) ==
    /\ reqs[r].pc = "verifying"
    /\ \E sdk \in AdminVerifyIdToken(reqs[r].verifyArg) :
         LET res == VerifyIdToken(sdk)
         IN reqs' = [reqs EXCEPT ![r] =
                       IF res.ok
                       THEN [@ EXCEPT !.pc = "routed", !.sdk = sdk, !.user = res.uid]
                       ELSE Finish([@ EXCEPT !.sdk = sdk], CheckAuthFailure(res))]
    /\ UNCHANGED <<load, store, nextId, appVars, poolVars>>

\* POST /: the handler up to its first await.
CreateHandler(r) ==
    /\ reqs[r].pc = "routed"
    /\ \E body \in load.bodies :
         LET err == CreateValidation(body)
             req == [reqs[r] EXCEPT !.route = "create", !.body = body]
         IN reqs' = [reqs EXCEPT ![r] =
                       IF err # NoError
                       THEN Finish(req, AsyncHandlerCatch(err))
                       ELSE [req EXCEPT !.pc = "insert",
                                        !.st.params = InsertParams(req.user, body)]]
    /\ UNCHANGED <<load, store, nextId, appVars, poolVars>>

\* A faulty variant: the store's own error is passed on by the catch block.
CreateFailureLeaking == StoreError

\* A faulty variant: a failed INSERT is reported as a bad request.
CreateFailureBadRequest == CreateError("Failed to create order. Please try again.", 400)

CreateFailure == CreateError("Failed to create order. Please try again.", 500)

\* A faulty variant: the new row takes the place of the table's rows.
StoredOver(rows, row) == <<row>>

\* The table after the INSERT: its rows and the new one.
Stored(rows, row) == Append(rows, row)

\* The INSERT: the table takes the row, or the query fails and the catch
\* block throws the generic 500.
CreateInsert(r) ==
    /\ reqs[r].pc = "insert"
    /\ LET req == Log(reqs[r], Query("insert", <<>>, reqs[r].st.params))
       IN \/ \E ts \in Timestamps(store) :
               LET ins == InsertedRow(req.st.params, nextId, ts)
               IN /\ ins.ok
                  /\ Len(store) < MaxOrders
                  /\ store' = Stored(store, ins.row)
                  /\ nextId' = nextId + 1
                  /\ reqs' = [reqs EXCEPT ![r] =
                                [req EXCEPT !.pc = "readback", !.st.insertId = nextId]]
          \/ /\ reqs' = [reqs EXCEPT ![r] = Finish(Thrown(req, StoreError), AsyncHandlerCatch(CreateFailure))]
             /\ UNCHANGED <<store, nextId>>
    /\ UNCHANGED <<load, appVars, poolVars>>

\* SELECT * FROM orders WHERE orderId = ? with the insert id, and the 201.
CreateReadBack(r) ==
    /\ reqs[r].pc = "readback"
    /\ LET p == <<Num(reqs[r].st.insertId)>>
           req == Log(reqs[r], Query("readback", <<"orderId">>, p))
           rows == RowsOf(store, Matching(store, <<"orderId">>, p))
       IN \/ /\ Len(rows) > 0
             /\ reqs' = [reqs EXCEPT ![r] =
                  Finish(req, [Response(201, "handler", "", "Order created successfully")
                                 EXCEPT !.orders = <<FormatOrder(rows[1])>>])]
          \/ reqs' = [reqs EXCEPT ![r] = Finish(Thrown(req, StoreError), AsyncHandlerCatch(CreateFailure))]
    /\ UNCHANGED <<load, store, nextId, appVars, poolVars>>

ListFailure == CreateError("Failed to retrieve orders. Please try again.", 500)

\* A faulty variant: the caught error is rethrown as it is.
RethrowAll(err, generic) == err

\* A faulty variant: the caught error is always replaced.
RethrowGeneric(err, generic) == generic

\* An error caught by the try block of list or get-by-id: rethrown when it
\* has a status, replaced by the generic 500 otherwise.
Rethrow(err, generic) == IF err.status # 0 THEN err ELSE generic

\* GET /: the handler up to its first await.
ListHandler(r) ==
    /\ reqs[r].pc = "routed"
    /\ \E query \in load.queries :
         LET err == ListValidation(query)
             req == [reqs[r] EXCEPT !.route = "list", !.query = query,
                                    !.st.limit = ParsedLimit(query),
                                    !.st.offset = ParsedOffset(query)]
         IN reqs' = [reqs EXCEPT ![r] =
                       IF err # NoError
                       THEN Finish(req, AsyncHandlerCatch(Rethrow(err, ListFailure)))
                       ELSE [req EXCEPT !.pc = "count",
                                        !.st.where = WhereConditions(query),
                                        !.st.params = QueryParams(req.user, query)]]
    /\ UNCHANGED <<load, store, nextId, appVars, poolVars>>

\* SELECT COUNT(*) as total FROM orders WHERE ...
ListCount(r) ==
    /\ reqs[r].pc = "count"
    /\ LET st == reqs[r].st
           req == Log(reqs[r], Query("count", st.where, st.params))
       IN \/ reqs' = [reqs EXCEPT ![r] =
                        [req EXCEPT !.pc = "page",
                                    !.st.total = Cardinality(Matching(store, st.where, st.params))]]
          \/ reqs' = [reqs EXCEPT ![r] =
                        Finish(Thrown(req, StoreError),
                               AsyncHandlerCatch(Rethrow(StoreError, ListFailure)))]
    /\ UNCHANGED <<load, store, nextId, appVars, poolVars>>

\* SELECT * FROM orders WHERE ... ORDER BY createdAt DESC LIMIT ? OFFSET ?
\* and the 200.
ListPage(r) ==
    /\ reqs[r].pc = "page"
    /\ LET st == reqs[r].st
           req == Log(reqs[r], Query("page", st.where,
                                     st.params \o <<Num(st.limit), Num(st.offset)>>))
       IN \/ \E f \in Arrangements(store, Matching(store, st.where, st.params)) :
               reqs' = [reqs EXCEPT ![r] =
                 Finish(req, [Response(200, "handler", "", "Orders retrieved successfully")
                    EXCEPT !.orders = FormatOrders(PageOf(store, f, st.limit, st.offset)),
                           !.pagination = [total |-> st.total, limit |-> st.limit,
                                           offset |-> st.offset,
                                           hasMore |-> st.offset + st.limit < st.total]])]
          \/ reqs' = [reqs EXCEPT ![r] =
                        Finish(Thrown(req, StoreError),
                               AsyncHandlerCatch(Rethrow(StoreError, ListFailure)))]
    /\ UNCHANGED <<load, store, nextId, appVars, poolVars>>

GetFailure == CreateError("Failed to retrieve order. Please try again.", 500)

\* GET /:orderId: the handler up to its await.
GetHandler(r) ==
    /\ reqs[r].pc = "routed"
    /\ \E orderId \in load.orderIds :
         LET req == [reqs[r] EXCEPT !.route = "get", !.orderId = orderId]
         IN reqs' = [reqs EXCEPT ![r] =
                       IF InvalidOrderId(orderId)
                       THEN Finish(req, AsyncHandlerCatch(CreateError("Invalid order ID", 400)))
                       ELSE [req EXCEPT !.pc = "select",
                                        !.st.where = <<"orderId", "userUid">>,
                                        !.st.params = <<ParseInt(orderId), Str(req.user)>>]]
    /\ UNCHANGED <<load, store, nextId, appVars, poolVars>>

\* SELECT * FROM orders WHERE orderId = ? AND userUid = ? and the 200 or 404.
GetSelect(r) ==
    /\ reqs[r].pc = "select"
    /\ LET st == reqs[r].st
           req == Log(reqs[r], Query("select", st.where, st.params))
           rows == RowsOf(store, Matching(store, st.where, st.params))
       IN \/ reqs' = [reqs EXCEPT ![r] =
                 IF Len(rows) = 0
                 THEN Finish(req, AsyncHandlerCatch(
                                     Rethrow(CreateError("Order not found", 404), GetFailure)))
                 ELSE Finish(req, [Response(200, "handler", "", "Order retrieved successfully")
                                     EXCEPT !.orders = <<FormatOrder(rows[1])>>])]
          \/ reqs' = [reqs EXCEPT ![r] =
                        Finish(Thrown(req, StoreError),
                               AsyncHandlerCatch(Rethrow(StoreError, GetFailure)))]
    /\ UNCHANGED <<load, store, nextId, appVars, poolVars>>

\* The response has been sent; the slot takes the next request.
Retire(r) ==
    /\ reqs[r].pc = "done"
    /\ reqs' = [reqs EXCEPT ![r] = IdleReq]
    /\ UNCHANGED <<load, store, nextId, appVars, poolVars>>

\* The workloads.
Load(slots, headers, bodies, queries, orderIds) ==
    [slots |-> slots, headers |-> headers, bodies |-> bodies,
     queries |-> queries, orderIds |-> orderIds]

BearerOf(uid) == Header(BearerPrefix \o TokenOf(uid))

RouterLoad ==
    Load(Slots,
         {NoHeader} \cup {BearerOf(u) : u \in Uids},
         {GoodBody,
          [GoodBody EXCEPT !.latPickup = Str("45"), !.lngPickup = Num(0),
                           !.orderType = Str("pickup")],
          [GoodBody EXCEPT !.latPickup = Num(91)]},
         {NoQuery, [NoQuery EXCEPT !.status = Str("bogus")],
          [NoQuery EXCEPT !.limit = Str("1"), !.orderType = Str("DELIVERY")]},
         {"1", "2", "abc"})

\* One request at a time, drawn from every input of the model.
FullLoad == Load({1}, Headers, Bodies, Queries, OrderIds)

EmptyStore ==
    /\ store = <<>>
    /\ nextId = 1
    /\ reqs = [r \in Slots |-> IdleReq]

RouterInit == load = RouterLoad /\ EmptyStore

(***************************************************************************)
(* The application of server.js: its stack of layers and the dispatch of   *)
(* a request through it (express 4: a layer runs when its path matches;    *)
(* after next(err) only error-handling layers run; when the stack is       *)
(* exhausted express's final handler answers).                             *)
(***************************************************************************)
\* The layers registered while the module loads, in source order.
ModuleStack ==
    <<"helmet", "cors", "limiter", "json", "urlencoded", "apiDocs",
      "health", "apiTest", "notFound", "errorHandler">>

\* An error-handling layer: a function of four arguments.
IsErrorLayer(layer) == layer = "errorHandler"

IPs == {"ip1", "ip2"}

UnderOrders(path) == path \in {"/api/orders", "/api/orders/1"}

\* Whether a layer's method and mount path match a request.
LayerMatches(layer, method, path) ==
    CASE layer = "apiDocs" -> path = "/api-docs"
      [] layer = "health" -> method = "GET" /\ path = "/health"
      [] layer = "apiTest" -> method = "GET" /\ path = "/api/test"
      [] layer = "orderRoutes" -> UnderOrders(path)
      [] OTHER -> TRUE

\* The index of the next layer after position from that takes the request:
\* error-handling layers when an error is pending, the others when not.
\* 0 when there is none.
NextLayer(stk, from, method, path, erring) ==
    LET later == {i \in (from + 1)..Len(stk) :
                    /\ LayerMatches(stk[i], method, path)
                    /\ IsErrorLayer(stk[i]) = erring}
    IN IF later = {} THEN 0 ELSE CHOOSE i \in later : \A j \in later : i <= j

\* The layer an error raised in layer i is delivered to.
ErrorSink(stk, i, method, path) ==
    LET k == NextLayer(stk, i, method, path, TRUE)
    IN IF k = 0 THEN "finalhandler" ELSE stk[k]

\* The values of NODE_ENV: a deployment, a developer's machine, and the
\* variable left unset.
Envs == {"production", "development", ""}

\* A faulty variant: the diagnostics are attached whatever the environment.
DiagnosticsAlways(e) == TRUE

\* errorHandler attaches the error's stack and the error itself (details)
\* to its response.
Diagnostics(e) == e = "development"

\* errorHandler of server.js. The codes of the model that start with
\* "auth/" are the provider's three.
ErrorHandler(err) ==
    LET base == [message |-> IF err.message # "" THEN err.message
                             ELSE "Internal Server Error",
                 status |-> IF err.status # 0 THEN err.status ELSE 500]
        e1 == IF err.code = "ER_DUP_ENTRY"
              THEN [message |-> "Duplicate entry. Resource already exists.", status |-> 409]
              ELSE base
        e2 == IF err.code = "ER_NO_SUCH_TABLE"
              THEN [message |-> "Database table not found.", status |-> 500]
              ELSE e1
        e3 == IF err.code = "ECONNREFUSED"
              THEN [message |-> "Database connection failed.", status |-> 500]
              ELSE e2
        e4 == IF err.code \in {"auth/id-token-expired", "auth/id-token-revoked",
                               "auth/invalid-id-token"}
              THEN [message |-> "Authentication error.", status |-> 401]
              ELSE e3
        e5 == IF err.name = "SyntaxError" /\ err.status = 400
              THEN [message |-> "Invalid JSON format in request body.", status |-> 400]
              ELSE e4
    IN [Response(e5.status, "errorHandler", e5.message, "")
            EXCEPT !.stack = Diagnostics(env), !.details = Diagnostics(env)]

\* express's final handler: the error's status, 404 when nothing answered;
\* it writes the error's stack unless NODE_ENV is production.
FinalHandler(err) ==
    IF err = NoError
    THEN Response(404, "finalhandler", "Not Found", "")
    ELSE [Response(IF err.status # 0 THEN err.status ELSE 500, "finalhandler",
                   err.message, "")
             EXCEPT !.stack = env # "production"]

\* What running a layer does to a request: it answers, hands an error to
\* next, or passes. count is the limiter's counter for the request's IP,
\* this request included.
Pass == [kind |-> "pass", resp |-> NoResponse, err |-> NoError]
Respond(resp) == [kind |-> "respond", resp |-> resp, err |-> NoError]
Raise(err) == [kind |-> "error", resp |-> NoResponse, err |-> err]

\* A faulty variant: the store loses every update after an IP's first.
IncrementLost(n) == Max(n, 1)

\* The limiter's store counts a request of an IP: the IP's counter after
\* the increment (the model stops counting above the ceiling).
Increment(n) == Min(n + 1, Ceiling + 1)

\* A faulty variant: the request that reaches the ceiling is rejected.
LimitedAtCeiling(count) == count >= Ceiling

\* The limiter rejects a request counted as the count-th of its window.
Limited(count) == count > Ceiling

LayerOutcomes(layer, req, count) ==
    CASE layer = "limiter" ->
           IF Limited(count)
           THEN {Respond(Response(429, "limiter", "Too many requests",
                                  "Rate limit exceeded. Please try again later."))}
           ELSE {Pass}
      [] layer = "json" ->
           IF req.method = "POST" /\ req.badJson THEN {Raise(JsonSyntaxError)} ELSE {Pass}
      [] layer = "health" -> {Respond(Response(200, "health", "", "ok"))}
      [] layer = "apiTest" -> {Respond(Response(200, "apiTest", "", "API is working!"))}
      [] layer = "notFound" ->
           {Respond(Response(404, "notFound", "Route not found", "Cannot reach the route"))}
      [] layer = "errorHandler" -> {Respond(ErrorHandler(req.err))}
      [] layer = "orderRoutes" ->
           IF req.tokenOk
           THEN {Respond(Response(200, "orderRoutes", "", "handled")),
                 Raise(CreateError("Order not found", 404)),
                 Raise(ListFailure)}
           ELSE {Respond(Response(401, "checkAuth", "Authentication failed", ""))}
      [] OTHER -> {Pass}

\* The requests sent to the application.
AppRequest(method, path, tokenOk, badJson) ==
    [method |-> method, path |-> path, tokenOk |-> tokenOk, badJson |-> badJson]

AppRequests ==
    {AppRequest("POST", "/api/orders", TRUE, FALSE),
     AppRequest("POST", "/api/orders", TRUE, TRUE),
     AppRequest("GET", "/api/orders", TRUE, FALSE),
     AppRequest("GET", "/api/orders", FALSE, FALSE),
     AppRequest("GET", "/api/orders/1", TRUE, FALSE),
     AppRequest("GET", "/health", FALSE, FALSE),
     AppRequest("GET", "/api/test", FALSE, FALSE),
     AppRequest("GET", "/nope", FALSE, FALSE)}

IdleAppReq ==
    [pc |-> "idle", method |-> "", path |-> "", ip |-> "", tokenOk |-> FALSE,
     badJson |-> FALSE, at |-> 0, err |-> NoError, admitted |-> FALSE,
     current |-> 0,
     trail |-> <<>>, resp |-> NoResponse]

\* startServer: initializeServices succeeded, the order routes are mounted
\* and the server listens.
ServicesUp ==
    /\ boot = "starting"
    /\ stack' = Append(stack, "orderRoutes")
    /\ boot' = "listening"
    /\ UNCHANGED <<hits, areqs, env, routerVars, poolVars>>

\* startServer: initializeServices returned false; the server listens
\* without the order routes.
ServicesDown ==
    /\ boot = "starting"
    /\ boot' = "listening"
    /\ UNCHANGED <<stack, hits, areqs, env, routerVars, poolVars>>

\* A request reaches the listening server and enters its first layer.
Accept(r) ==
    /\ boot = "listening"
    /\ areqs[r].pc = "idle"
    /\ \A q \in Slots : q < r => areqs[q].pc # "idle"
    /\ \E q \in AppRequests, ip \in IPs :
         areqs' = [areqs EXCEPT ![r] =
                     [IdleAppReq EXCEPT !.pc = "run", !.method = q.method,
                                        !.path = q.path, !.ip = ip,
                                        !.tokenOk = q.tokenOk, !.badJson = q.badJson,
                                        !.at = NextLayer(stack, 0, q.method, q.path, FALSE)]]
    /\ UNCHANGED <<stack, boot, hits, env, routerVars, poolVars>>

\* The request's current layer runs; express then moves the request to the
\* next layer that takes it, or to its final handler.
RunLayer(r) ==
    /\ areqs[r].pc = "run"
    /\ LET req == areqs[r]
           layer == stack[req.at]
           count == Increment(hits[req.ip])
       IN /\ hits' = IF layer = "limiter" THEN [hits EXCEPT ![req.ip] = count] ELSE hits
          /\ \E out \in LayerOutcomes(layer, req, count) :
               LET err == IF out.kind = "error" THEN out.err ELSE req.err
                   nxt == NextLayer(stack, req.at, req.method, req.path, err # NoError)
                   seen == [req EXCEPT !.trail = Append(@, layer),
                                       !.current = IF layer = "limiter" THEN count ELSE @,
                                       !.admitted = @ \/ (layer = "limiter" /\ out.kind = "pass")]
               IN areqs' = [areqs EXCEPT ![r] =
                      IF out.kind = "respond"
                      THEN [seen EXCEPT !.pc = "done", !.resp = out.resp]
                      ELSE IF nxt = 0
                      THEN [seen EXCEPT !.pc = "done", !.err = err, !.resp = FinalHandler(err)]
                      ELSE [seen EXCEPT !.at = nxt, !.err = err]]
    /\ UNCHANGED <<stack, boot, env, routerVars, poolVars>>

\* The limiter's window of an IP ends.
WindowReset(ip) ==
    /\ hits[ip] > 0
    /\ hits' = [hits EXCEPT ![ip] = 0]
    /\ UNCHANGED <<stack, boot, areqs, env, routerVars, poolVars>>

AppRetire(r) ==
    /\ areqs[r].pc = "done"
    /\ areqs' = [areqs EXCEPT ![r] = IdleAppReq]
    /\ UNCHANGED <<stack, boot, hits, env, routerVars, poolVars>>

\* The application once server.js is loaded and startServer awaits
\* initializeServices.
AppIdle ==
    /\ stack = ModuleStack
    /\ boot = "starting"
    /\ hits = [ip \in IPs |-> 0]
    /\ areqs = [r \in Slots |-> IdleAppReq]

\* The deployed configuration.
Deployed == env = "production"

(***************************************************************************)
(* The connection pool of config/db.js and the operations that borrow from *)
(* it: initializeDatabase and the connectivity check of initializeServices *)
(* at startup, then executeQuery for each query of a request.              *)
(***************************************************************************)
\* The process of startServer, beside the requests' slots.
Startup == 0
Procs == {Startup} \cup Slots

RECURSIVE HeldBy(_, _)
HeldBy(pl, S) ==
    IF S = {} THEN 0
    ELSE LET p == CHOOSE x \in S : TRUE
         IN pl.held[p] + HeldBy(pl, S \ {p})

\* The connections out of the pool.
Borrowed(pl) == HeldBy(pl, Procs)

\* pool.getConnection with waitForConnections and no queue limit: a free
\* connection is handed out, otherwise the caller is queued.
PoolGetConnection(pl, p) ==
    IF Borrowed(pl) < ConnectionLimit
    THEN [pl EXCEPT !.held[p] = @ + 1]
    ELSE [pl EXCEPT !.queue = Append(@, p)]

\* connection.release(): the connection goes to the first waiter, or back
\* to the pool.
Release(pl, p) ==
    LET back == [pl EXCEPT !.held[p] = @ - 1]
    IN IF back.queue # <<>>
       THEN [back EXCEPT !.held[Head(back.queue)] = @ + 1, !.queue = Tail(@)]
       ELSE back

\* A faulty variant: executeQuery keeps the connection.
FinallySkipped(pl, p) == pl

\* executeQuery's finally block: the connection it got is released.
Finally(pl, p) == IF pl.held[p] > 0 THEN Release(pl, p) ELSE pl

\* The process waits in the pool's queue.
Queued(pl, p) == \E i \in 1..Len(pl.queue) : pl.queue[i] = p

\* The queries a handler runs through executeQuery, one after the other:
\* insert and read-back, count and page, select.
QueriesOf(route) ==
    CASE route = "create" -> 2
      [] route = "list" -> 2
      [] route = "get" -> 1

IdleOp == [pc |-> "idle", route |-> "", left |-> 0, failed |-> FALSE]

\* initializeDatabase and the connectivity check: pool.getConnection. A
\* connection that cannot be made ends startup without the order routes.
StartupBorrow ==
    /\ ops[Startup].pc \in {"initDb", "check"}
    /\ \E made \in BOOLEAN :
         IF made
         THEN /\ pool' = PoolGetConnection(pool, Startup)
              /\ ops' = [ops EXCEPT ![Startup].pc =
                            IF pool'.held[Startup] > pool.held[Startup]
                            THEN (IF @ = "initDb" THEN "initDbExec" ELSE "checkExec")
                            ELSE (IF @ = "initDb" THEN "initDbWait" ELSE "checkWait")]
         ELSE /\ ops' = [ops EXCEPT ![Startup].pc = "down", ![Startup].failed = TRUE]
              /\ UNCHANGED pool
    /\ UNCHANGED <<routerVars, appVars>>

\* initializeDatabase: the CREATE TABLE statement is answered; the
\* connection is released after a statement that succeeded, and the catch
\* block rethrows after one that failed.
InitializeDatabaseSettle ==
    /\ ops[Startup].pc = "initDbExec"
    /\ \E ok \in BOOLEAN :
         IF ok
         THEN /\ pool' = Release(pool, Startup)
              /\ ops' = [ops EXCEPT ![Startup].pc = "check"]
         ELSE /\ ops' = [ops EXCEPT ![Startup].pc = "down", ![Startup].failed = TRUE]
              /\ UNCHANGED pool
    /\ UNCHANGED <<routerVars, appVars>>

\* initializeServices: SELECT 1 is answered; the connection is released
\* after a statement that succeeded, and the catch block returns false after
\* one that failed.
ConnectivitySettle ==
    /\ ops[Startup].pc = "checkExec"
    /\ \E ok \in BOOLEAN :
         IF ok
         THEN /\ pool' = Release(pool, Startup)
              /\ ops' = [ops EXCEPT ![Startup].pc = "up"]
         ELSE /\ ops' = [ops EXCEPT ![Startup].pc = "down", ![Startup].failed = TRUE]
              /\ UNCHANGED pool
    /\ UNCHANGED <<routerVars, appVars>>

\* A request reaches a handler of the order routes, which startServer
\* mounts when initializeServices returned true.
PoolArrive(r) ==
    /\ ops[Startup].pc = "up"
    /\ ops[r].pc = "idle"
    /\ \E route \in {"create", "list", "get"} :
         ops' = [ops EXCEPT ![r] = [IdleOp EXCEPT !.pc = "call", !.route = route,
                                                   !.left = QueriesOf(route)]]
    /\ UNCHANGED <<pool, routerVars, appVars>>

\* executeQuery: getConnection. A connection that cannot be made makes
\* executeQuery throw with nothing to release.
ExecuteQueryBorrow(r) ==
    /\ ops[r].pc = "call"
    /\ \E made \in BOOLEAN :
         IF made
         THEN /\ pool' = PoolGetConnection(pool, r)
              /\ ops' = [ops EXCEPT ![r].pc =
                            IF pool'.held[r] > pool.held[r] THEN "exec" ELSE "wait"]
         ELSE /\ Borrowed(pool) < ConnectionLimit
              /\ ops' = [ops EXCEPT ![r].pc = "done", ![r].failed = TRUE]
              /\ UNCHANGED pool
    /\ UNCHANGED <<routerVars, appVars>>

\* executeQuery: the pool hands a released connection to the waiting call.
ExecuteQueryGranted(r) ==
    /\ ops[r].pc = "wait"
    /\ pool.held[r] > 0
    /\ ops' = [ops EXCEPT ![r].pc = "exec"]
    /\ UNCHANGED <<pool, routerVars, appVars>>

\* executeQuery: the statement is answered and the finally block releases
\* the connection; the handler goes on to its next query, or ends (a failed
\* query ends it in its catch block).
ExecuteQuerySettle(r) ==
    /\ ops[r].pc = "exec"
    /\ pool' = Finally(pool, r)
    /\ \E ok \in BOOLEAN :
         ops' = [ops EXCEPT ![r] =
                    IF ok /\ @.left > 1
                    THEN [@ EXCEPT !.pc = "call", !.left = @ - 1]
                    ELSE [@ EXCEPT !.pc = "done", !.left = 0, !.failed = ~ok]]
    /\ UNCHANGED <<routerVars, appVars>>

PoolRetire(r) ==
    /\ ops[r].pc = "done"
    /\ ops' = [ops EXCEPT ![r] = IdleOp]
    /\ UNCHANGED <<pool, routerVars, appVars>>

\* The pool as createPool makes it, startServer about to await
\* initializeDatabase.
PoolIdle ==
    /\ pool = [held |-> [p \in Procs |-> 0], queue |-> <<>>]
    /\ ops = [p \in Procs |-> IF p = Startup THEN [IdleOp EXCEPT !.pc = "initDb"]
                                              ELSE IdleOp]


Init == RouterInit /\ AppIdle /\ Deployed /\ PoolIdle

Next ==
    \/ \E r \in load.slots : Arrive(r)
    \/ \E r \in load.slots : CheckAuthStart(r)
    \/ \E r \in load.slots : CheckAuthSettle(r)
    \/ \E r \in load.slots : CreateHandler(r)
    \/ \E r \in load.slots : CreateInsert(r)
    \/ \E r \in load.slots : CreateReadBack(r)
    \/ \E r \in load.slots : ListHandler(r)
    \/ \E r \in load.slots : ListCount(r)
    \/ \E r \in load.slots : ListPage(r)
    \/ \E r \in load.slots : GetHandler(r)
    \/ \E r \in load.slots : GetSelect(r)
    \/ \E r \in load.slots : Retire(r)

Spec == Init /\ [][Next]_vars

\* The router serving one request after the other, over every input.
InitSeq == load = FullLoad /\ EmptyStore /\ AppIdle /\ Deployed /\ PoolIdle

SpecSeq == InitSeq /\ [][Next]_vars

\* The application of server.js serving requests.
NextApp ==
    \/ ServicesUp
    \/ ServicesDown
    \/ \E r \in Slots : Accept(r)
    \/ \E r \in Slots : RunLayer(r)
    \/ \E ip \in IPs : WindowReset(ip)
    \/ \E r \in Slots : AppRetire(r)

SpecApp == Init /\ [][NextApp]_vars

\* The application within one window of the limiter: no window ends.
NextWindow ==
    \/ ServicesUp
    \/ ServicesDown
    \/ \E r \in Slots : Accept(r)
    \/ \E r \in Slots : RunLayer(r)
    \/ \E r \in Slots : AppRetire(r)

SpecWindow == Init /\ [][NextWindow]_vars

\* The application under every value of NODE_ENV.
InitEnv == RouterInit /\ AppIdle /\ env \in Envs /\ PoolIdle

SpecEnv == InitEnv /\ [][NextApp]_vars

\* The pool of config/db.js through startup and the requests' queries.
NextPool ==
    \/ StartupBorrow
    \/ InitializeDatabaseSettle
    \/ ConnectivitySettle
    \/ \E r \in Slots : PoolArrive(r)
    \/ \E r \in Slots : ExecuteQueryBorrow(r)
    \/ \E r \in Slots : ExecuteQueryGranted(r)
    \/ \E r \in Slots : ExecuteQuerySettle(r)
    \/ \E r \in Slots : PoolRetire(r)

SpecPool == Init /\ [][NextPool]_vars

\* The same, the event loop running every continuation that is ready and
\* the store answering every statement.
SpecPoolFair ==
    /\ SpecPool
    /\ \A r \in Slots : /\ WF_vars(ExecuteQueryBorrow(r))
                         /\ WF_vars(ExecuteQueryGranted(r))
                         /\ WF_vars(ExecuteQuerySettle(r))

(***************************************************************************)
(* Properties.                                                             *)
(***************************************************************************)
Answered(r) == reqs[r].pc = "done"

\* The owner parameter a query carries: the first value of the INSERT, the
\* value bound to "userUid = ?" of a SELECT, Undefined when it has none.
OwnerParam(q) ==
    IF q.q = "insert"
    THEN q.params[1]
    ELSE IF \E k \in 1..Len(q.where) : q.where[k] = "userUid"
    THEN q.params[CHOOSE k \in 1..Len(q.where) : q.where[k] = "userUid"]
    ELSE Undefined

\* checkAuth verified the request's token, once, and req.user is its subject.
Verified(req) ==
    /\ req.verifyCalls = 1
    /\ req.header.present
    /\ req.verifyArg = SubSeq(req.header.v, Len(BearerPrefix) + 1, Len(req.header.v))
    /\ req.sdk \in AdminVerifyIdToken(req.verifyArg)
    /\ req.sdk.ok
    /\ req.user = req.sdk.uid

InHandler(req) ==
    req.pc \in {"insert", "readback", "count", "page", "select"} \/ req.route # ""

\* A header checkAuth is to reject before verifying.
RejectedHeader(h) ==
    \/ ~h.present
    \/ Len(h.v) < Len(BearerPrefix)
    \/ \E i \in 1..Len(BearerPrefix) : h.v[i] # BearerPrefix[i]
    \/ Len(h.v) = Len(BearerPrefix)

\* A JSON number within [-bound, bound].
NumberWithin(v, bound) ==
    v.t = "number" /\ v.s = "" /\ v.n >= 0 - bound /\ v.n <= bound

\* C1: every order carried by a 200 or 201 response has userUid equal to the
\* subject of the token verified for the request.
OwnershipIsolation ==
    \A r \in Slots :
        Answered(r) /\ reqs[r].resp.status \in {200, 201} =>
            \A k \in 1..Len(reqs[r].resp.orders) :
                reqs[r].resp.orders[k].userUid = reqs[r].sdk.uid

\* C2: a get-by-id answered from the store for an id under which the caller
\* owns no order is answered 404 "Order not found" and carries no order,
\* whether or not another user owns an order of that id.
ForeignOrderNotFound ==
    \A r \in Slots :
        LET req == reqs[r]
        IN (/\ Answered(r)
            /\ req.route = "get"
            /\ Len(req.queries) = 1
            /\ req.resp.status # 500
            /\ ~\E i \in 1..Len(store) :
                   /\ Num(store[i].orderId) = ParseInt(req.orderId)
                   /\ store[i].userUid = req.sdk.uid)
           => /\ req.resp.status = 404
              /\ req.resp.error = "Order not found"
              /\ req.resp.orders = <<>>

\* C3: a request to the order routes that the limiter admitted and that
\* carries a valid token is answered by the order router, after the limiter
\* ran.
OrderRequestsReachHandler ==
    \A r \in Slots :
        LET req == areqs[r]
        IN (req.pc = "done" /\ UnderOrders(req.path) /\ req.admitted /\ req.tokenOk
            /\ ~req.badJson)
           => /\ req.resp.by = "orderRoutes"
              /\ \E i, j \in 1..Len(req.trail) :
                    i < j /\ req.trail[i] = "limiter" /\ req.trail[j] = "orderRoutes"

\* C4: an error the order router hands to next is delivered to errorHandler:
\* wherever the router is mounted, errorHandler is the error-handling layer
\* that follows it, and a request whose error the router raised is answered
\* by errorHandler with the error's status.
HandlerFailuresReachErrorHandler ==
    /\ \A i \in 1..Len(stack) :
          stack[i] = "orderRoutes" =>
              \A q \in AppRequests :
                  UnderOrders(q.path) => ErrorSink(stack, i, q.method, q.path) = "errorHandler"
    /\ \A r \in Slots :
          LET req == areqs[r]
          IN (/\ req.pc = "done"
              /\ req.err # NoError
              /\ \E i \in 1..Len(req.trail) : req.trail[i] = "orderRoutes")
             => req.resp = ErrorHandler(req.err)

\* C5 as stated: a handler runs only for a request whose token checkAuth
\* verified once, with req.user the verified subject, and every query of
\* the request carries that subject as its owner parameter.
EveryQueryOwnerScoped ==
    \A r \in Slots :
        LET req == reqs[r]
        IN /\ InHandler(req) => Verified(req)
           /\ \A k \in 1..Len(req.queries) :
                 Verified(req) /\ OwnerParam(req.queries[k]) = Str(req.sdk.uid)

\* C5, amended: a handler runs only for a request whose token checkAuth
\* verified once, with req.user the verified subject; the INSERT, the count,
\* the page and the get-by-id queries carry that subject as their owner
\* parameter, and the read-back of create carries no owner parameter: it is
\* keyed by the id the request's own INSERT returned.
OwnerScopedExceptReadBack ==
    \A r \in Slots :
        LET req == reqs[r]
        IN /\ InHandler(req) => Verified(req)
           /\ \A k \in 1..Len(req.queries) :
                 LET q == req.queries[k]
                 IN /\ Verified(req)
                    /\ q.q \in {"insert", "count", "page", "select"} =>
                          OwnerParam(q) = Str(req.sdk.uid)
                    /\ q.q = "readback" =>
                          /\ q.where = <<"orderId">>
                          /\ q.params = <<Num(req.st.insertId)>>
                          /\ k = 2
                          /\ req.queries[1].q = "insert"
                          /\ req.st.insertId > 0

\* A create was answered 201 after its INSERT and its read-back.
CreatedAfterReadBack ==
    \E r \in Slots :
        /\ Answered(r)
        /\ reqs[r].resp.status = 201
        /\ Len(reqs[r].queries) = 2
        /\ reqs[r].queries[2].q = "readback"

\* C6: a request whose Authorization header is absent, does not start with
\* "Bearer " or has nothing after it is answered 401 by checkAuth with the
\* verifier never called and no handler run; for any other header the
\* verifier is called exactly once, with the rest of the header.
HeaderGate ==
    \A r \in Slots :
        LET req == reqs[r]
        IN req.pc \notin {"idle", "checkAuth"} =>
             IF RejectedHeader(req.header)
             THEN /\ req.pc = "done"
                  /\ req.resp.status = 401
                  /\ req.resp.by = "checkAuth"
                  /\ req.verifyCalls = 0
                  /\ req.user = ""
                  /\ req.route = ""
                  /\ req.queries = <<>>
             ELSE /\ req.verifyCalls = 1
                  /\ req.verifyArg = [i \in 1..(Len(req.header.v) - Len(BearerPrefix)) |->
                                        req.header.v[i + Len(BearerPrefix)]]

\* A header with the scheme in lowercase was rejected while the store held
\* the order of a request that went through the verifier.
LowercaseSchemeRejected ==
    /\ \E r \in Slots :
          /\ Answered(r)
          /\ reqs[r].header.present
          /\ Len(reqs[r].header.v) > Len(BearerPrefix)
          /\ reqs[r].header.v[1] = "b"
          /\ reqs[r].resp.status = 401
          /\ reqs[r].verifyCalls = 0
    /\ store # <<>>

\* C7: a failed verification is answered 401 with the message of its
\* cause: "Token expired", "Token revoked", "Invalid token" for the
\* provider's three codes, "Authentication failed" for anything else.
MessagePerCause ==
    \A r \in Slots :
        LET req == reqs[r]
        IN Answered(r) /\ req.verifyCalls = 1 /\ ~req.sdk.ok =>
             /\ req.resp.status = 401
             /\ req.resp.error =
                  CASE req.sdk.code = "auth/id-token-expired" -> "Token expired"
                    [] req.sdk.code = "auth/id-token-revoked" -> "Token revoked"
                    [] req.sdk.code = "auth/invalid-id-token" -> "Invalid token"
                    [] OTHER -> "Authentication failed"

\* C8: every INSERT issued carries numbers for the four coordinates, the
\* latitudes within [-90, 90] and the longitudes within [-180, 180], and a
\* finite number above 0 for the amount.
InsertsCarryCheckedValues ==
    \A r \in Slots :
        \A k \in 1..Len(reqs[r].queries) :
            LET q == reqs[r].queries[k]
            IN q.q = "insert" =>
                 /\ NumberWithin(q.params[4], 90)
                 /\ NumberWithin(q.params[5], 180)
                 /\ NumberWithin(q.params[6], 90)
                 /\ NumberWithin(q.params[7], 180)
                 /\ q.params[8].t = "number" /\ q.params[8].s = "" /\ q.params[8].n > 0

BadRequestTouchesNoStore ==
    [][\A r \in Slots :
          (reqs[r].pc # "done" /\ reqs'[r].pc = "done" /\ reqs'[r].resp.status = 400)
          => /\ reqs'[r].queries = <<>>
             /\ store' = store
             /\ nextId' = nextId]_vars

\* A list with an unknown status was answered 400 while the store held an
\* order.
InvalidStatusRejected ==
    \E r \in Slots :
        /\ Answered(r)
        /\ reqs[r].resp.status = 400
        /\ reqs[r].route = "list"
        /\ store # <<>>

\* C11: a create that issued its INSERT ends either with the 201 carrying
\* the whole row read back under the id of its INSERT, after both queries,
\* or, when the INSERT or the read-back failed, with the 500 "Failed to
\* create order. Please try again." carrying no order.
CreateAllOrNothing ==
    \A r \in Slots :
        LET req == reqs[r]
        IN (Answered(r) /\ req.route = "create" /\ req.queries # <<>>)
           => \/ /\ req.resp.status = 201
                 /\ Len(req.queries) = 2
                 /\ \E i \in 1..Len(store) :
                       /\ store[i].orderId = req.st.insertId
                       /\ req.resp.orders = <<FormatOrder(store[i])>>
              \/ /\ req.resp.status = 500
                 /\ req.resp.error = "Failed to create order. Please try again."
                 /\ req.resp.orders = <<>>

\* A create whose INSERT stored the row and whose read-back failed was
\* answered 500.
ReadBackFailed ==
    \E r \in Slots :
        /\ Answered(r)
        /\ reqs[r].route = "create"
        /\ Len(reqs[r].queries) = 2
        /\ reqs[r].resp.status = 500
        /\ \E i \in 1..Len(store) : store[i].orderId = reqs[r].st.insertId

\* An order of a response carries the fields of payload P as the client
\* sent them (orderType in lowercase), the id i, the owner U, the status
\* pending and both timestamps.
EchoesPayload(order, P, i, U) ==
    /\ order.orderId = i
    /\ order.userUid = U
    /\ Str(order.pickupAddress) = P.pickupAddress
    /\ Str(order.dropoffAddress) = P.dropoffAddress
    /\ order.latPickup = P.latPickup
    /\ order.lngPickup = P.lngPickup
    /\ order.latDropoff = P.latDropoff
    /\ order.lngDropoff = P.lngDropoff
    /\ order.amount = P.amount
    /\ order.orderType = ToLowerCase(P.orderType.s)
    /\ order.status = "pending"
    /\ order.createdAt.t = "string"
    /\ order.updatedAt.t = "string"

\* C12: once a create of payload P by user U has been answered 201 with
\* order id i, the step in which the store answers a get-by-id of i by U
\* answers 200 with an order whose fields equal P with orderType
\* lowercased, orderId i, userUid U, status pending and both timestamps.
RoundTrip ==
    [][\A c, g \in Slots :
          (/\ reqs[c].pc = "done"
           /\ reqs[c].route = "create"
           /\ reqs[c].resp.status = 201
           /\ reqs[g].pc = "select"
           /\ reqs'[g].pc = "done"
           /\ reqs'[g].resp.status # 500
           /\ StringToNumber(reqs[g].orderId) = Num(reqs[c].st.insertId)
           /\ reqs[g].sdk.uid = reqs[c].sdk.uid)
          => /\ reqs'[g].resp.status = 200
             /\ Len(reqs'[g].resp.orders) = 1
             /\ EchoesPayload(reqs'[g].resp.orders[1], reqs[c].body,
                              reqs[c].st.insertId, reqs[c].sdk.uid)]_vars

\* A value that is absent or falsy and is not the number 0.
AbsentOrFalsyNotZero(v) ==
    \/ v.t \in {"undefined", "null"}
    \/ v = Str("")
    \/ v = Bool(FALSE)
    \/ v = NaN

\* C13: the fields a create reports missing are exactly those of the eight
\* required fields, in their fixed order, whose value is absent or falsy
\* and not the number 0; when there is one the answer is the 400 "Missing
\* required fields" listing them all, and otherwise no field is reported.
MissingFieldsExact ==
    \A r \in Slots :
        LET req == reqs[r]
            miss == SelectSeq(<<"pickupAddress", "dropoffAddress", "latPickup",
                                "lngPickup", "latDropoff", "lngDropoff", "amount",
                                "orderType">>,
                              LAMBDA f : AbsentOrFalsyNotZero(req.body[f]))
        IN (Answered(r) /\ req.route = "create")
           => IF miss # <<>>
              THEN /\ req.resp.status = 400
                   /\ req.resp.error = "Missing required fields"
                   /\ req.resp.missing = miss
                   /\ req.queries = <<>>
              ELSE /\ req.resp.error # "Missing required fields"
                   /\ req.resp.missing = <<>>

\* A payload with a pickup latitude of 0 and three fields empty, false and
\* null was answered with exactly those three.
ZeroCoordinateNotMissing ==
    \E r \in Slots :
        /\ Answered(r)
        /\ reqs[r].body.latPickup = Num(0)
        /\ reqs[r].resp.missing = <<"pickupAddress", "lngDropoff", "orderType">>

\* The seven rules of create validation in their order, and their messages.
RuleViolated(body, k) ==
    CASE k = 1 -> \E f \in DOMAIN body : AbsentOrFalsyNotZero(body[f])
      [] k = 2 -> ~NumberWithin(body.latPickup, 90)
      [] k = 3 -> ~NumberWithin(body.lngPickup, 180)
      [] k = 4 -> ~NumberWithin(body.latDropoff, 90)
      [] k = 5 -> ~NumberWithin(body.lngDropoff, 180)
      [] k = 6 -> ~(body.amount.t = "number" /\ body.amount.s = "" /\ body.amount.n > 0)
      [] OTHER -> ~(/\ body.orderType.t = "string"
                    /\ ToLowerCase(body.orderType.s) \in
                         {"delivery", "pickup", "express", "scheduled"})

RuleMessage(k) ==
    CASE k = 1 -> "Missing required fields"
      [] k = 2 -> "Invalid pickup latitude. Must be between -90 and 90"
      [] k = 3 -> "Invalid pickup longitude. Must be between -180 and 180"
      [] k = 4 -> "Invalid dropoff latitude. Must be between -90 and 90"
      [] k = 5 -> "Invalid dropoff longitude. Must be between -180 and 180"
      [] k = 6 -> "Amount must be a positive number"
      [] OTHER -> "Invalid order type. Must be one of: delivery, pickup, express, scheduled"

\* C14: a create whose payload violates several of the seven rules is
\* answered 400 with the message of the earliest violated rule, in the
\* order missing fields, pickup latitude, pickup longitude, dropoff
\* latitude, dropoff longitude, amount, orderType.
EarliestRuleReported ==
    \A r \in Slots :
        LET req == reqs[r]
            broken == {k \in 1..7 : RuleViolated(req.body, k)}
        IN (Answered(r) /\ req.route = "create" /\ Cardinality(broken) >= 2)
           => /\ req.resp.status = 400
              /\ req.resp.error =
                   RuleMessage(CHOOSE k \in broken : \A j \in broken : k <= j)

\* C15: a create whose payload passes the missing-field, coordinate and
\* amount rules is answered 400 "Invalid order type. ..." when its
\* orderType, whatever its JSON type, is not one of the four types in some
\* letter case; when it is one, the INSERT carries its lowercase form.
OrderTypeChecked ==
    \A r \in Slots :
        LET req == reqs[r]
        IN (/\ Answered(r)
            /\ req.route = "create"
            /\ \A k \in 1..6 : ~RuleViolated(req.body, k))
           => IF RuleViolated(req.body, 7)
              THEN /\ req.resp.status = 400
                   /\ req.resp.error = RuleMessage(7)
                   /\ req.queries = <<>>
              ELSE /\ req.queries # <<>>
                   /\ req.queries[1].q = "insert"
                   /\ req.queries[1].params[9] = Str(ToLowerCase(req.body.orderType.s))

\* C16: a create with orderType "ride" and otherwise valid fields, when the
\* store does not fail, is answered 201 "Order created successfully" with
\* an order of orderType "ride" and status "pending".
RideAccepted ==
    \A r \in Slots :
        LET req == reqs[r]
        IN (/\ Answered(r)
            /\ req.route = "create"
            /\ req.body.orderType = Str("ride")
            /\ \A k \in 1..6 : ~RuleViolated(req.body, k)
            /\ req.resp.status # 500)
           => /\ req.resp.status = 201
              /\ req.resp.message = "Order created successfully"
              /\ Len(req.resp.orders) = 1
              /\ req.resp.orders[1].orderType = "ride"
              /\ req.resp.orders[1].status = "pending"

\* The integer a query parameter spells, NaN when it is absent or spells
\* none.
IntegerOf(x) ==
    IF x.t = "string" /\ x.s # "" THEN StringToNumber(x.s) ELSE NaN

\* The limit and offset in effect: the default when the parameter is absent
\* or unparseable, the integer clamped to [1, 100], resp. to >= 0, otherwise.
EffectiveLimit(query) ==
    LET p == IntegerOf(query.limit)
    IN IF p.s = "NaN" THEN 20
       ELSE IF p.n < 1 THEN 1
       ELSE IF p.n > 100 THEN 100
       ELSE p.n

EffectiveOffset(query) ==
    LET p == IntegerOf(query.offset)
    IN IF p.s = "NaN" THEN 0
       ELSE IF p.n < 0 THEN 0
       ELSE p.n

\* C17: a list answered 200 echoes in pagination.limit and
\* pagination.offset, and binds as the last two parameters of its page
\* query, the limit in effect (20 by default, else the integer clamped to
\* [1, 100], so that 0 gives 1) and the offset in effect (0 by default,
\* else the integer clamped to >= 0).
PaginationClamped ==
    \A r \in Slots :
        LET req == reqs[r]
            lim == EffectiveLimit(req.query)
            off == EffectiveOffset(req.query)
        IN (Answered(r) /\ req.route = "list" /\ req.resp.status = 200)
           => /\ req.resp.pagination.limit = lim
              /\ req.resp.pagination.offset = off
              /\ Len(req.queries) = 2
              /\ LET p == req.queries[2].params
                 IN /\ p[Len(p) - 1] = Num(lim)
                    /\ p[Len(p)] = Num(off)

\* The rows of the store that user uid owns and that pass the status and
\* orderType filters of a list query.
CallersMatching(uid, query) ==
    {i \in 1..Len(store) :
        /\ store[i].userUid = uid
        /\ query.status.t = "string" /\ query.status.s # ""
              => store[i].status = query.status.s
        /\ query.orderType.t = "string" /\ query.orderType.s # ""
              => store[i].orderType = ToLowerCase(query.orderType.s)}

\* C18: with the store as it is, pagination.total of a list answered 200 is
\* the number of the caller's orders that pass the filters, whatever the
\* limit and offset, and the page query has the predicates of the count
\* query and its parameters followed by the limit and the offset.
TotalCountsCallersOrders ==
    \A r \in Slots :
        LET req == reqs[r]
        IN (Answered(r) /\ req.route = "list" /\ req.resp.status = 200)
           => /\ req.resp.pagination.total =
                   Cardinality(CallersMatching(req.sdk.uid, req.query))
              /\ Len(req.queries) = 2
              /\ req.queries[1].q = "count"
              /\ req.queries[2].q = "page"
              /\ req.queries[2].where = req.queries[1].where
              /\ Len(req.queries[2].params) = Len(req.queries[1].params) + 2
              /\ SubSeq(req.queries[2].params, 1, Len(req.queries[1].params))
                   = req.queries[1].params

\* A list answered 200 whose total is still the number of rows its
\* predicates select: no matching row was written since it counted.
ListedWithoutWrites(req) ==
    /\ req.pc = "done"
    /\ req.route = "list"
    /\ req.resp.status = 200
    /\ req.resp.pagination.total =
         Cardinality(Matching(store, req.st.where, req.st.params))

\* C19: two lists by the same caller with the same query parameters, with
\* no write in between, are answered with identical responses (the same
\* orders in the same sequence, the same total), each page in descending
\* order of createdAt, also when orders share a createdAt.
ListRepeatable ==
    \A a, b \in Slots :
        (/\ ListedWithoutWrites(reqs[a])
         /\ ListedWithoutWrites(reqs[b])
         /\ reqs[a].sdk.uid = reqs[b].sdk.uid
         /\ reqs[a].query = reqs[b].query)
        => /\ reqs[a].resp = reqs[b].resp
           /\ \A j, k \in 1..Len(reqs[a].resp.orders) :
                 j < k => reqs[a].resp.orders[j].createdAt.n
                            >= reqs[a].resp.orders[k].createdAt.n

\* C20: a get-by-id whose orderId does not spell an integer is answered 400
\* "Invalid order ID" without any query; only an orderId that spells an
\* integer leads to a lookup, and the id looked up is that integer.
OnlyIntegerIdsLookedUp ==
    \A r \in Slots :
        LET req == reqs[r]
        IN (Answered(r) /\ req.route = "get")
           => IF IntegerOf(Str(req.orderId)).s = "NaN"
              THEN /\ req.resp.status = 400
                   /\ req.resp.error = "Invalid order ID"
                   /\ req.queries = <<>>
              ELSE /\ Len(req.queries) = 1
                   /\ req.queries[1].q = "select"
                   /\ req.queries[1].params[1] = IntegerOf(Str(req.orderId))

\* The request in slot r is at the limiter and the step runs the limiter.
LimiterStep(r) ==
    /\ areqs[r].pc = "run"
    /\ stack[areqs[r].at] = "limiter"
    /\ areqs'[r] # areqs[r]

\* The limiter answered the request 429 and nothing after it saw the request.
Limited429(req) ==
    /\ req.pc = "done"
    /\ req.resp.status = 429
    /\ req.resp.by = "limiter"
    /\ req.trail[Len(req.trail)] = "limiter"
    /\ ~req.admitted

\* The limiter has run for the request.
PastLimiter(req) == \E i \in 1..Len(req.trail) : req.trail[i] = "limiter"

\* C21: within one window, a request that finds fewer than Ceiling earlier
\* requests of its IP counted is forwarded to the next layer; one that finds
\* Ceiling or more is answered 429 by the limiter and no later layer runs
\* for it; the limiter step leaves the counters of the other IPs alone.
LimiterAdmitsFirstCeiling ==
    [][\A r \in Slots :
          LimiterStep(r) =>
            LET req == areqs[r]
                after == areqs'[r]
            IN /\ hits[req.ip] < Ceiling =>
                    /\ after.admitted
                    /\ after.pc = "run"
                    /\ after.at > req.at
                    /\ hits'[req.ip] = hits[req.ip] + 1
               /\ hits[req.ip] >= Ceiling => Limited429(after)
               /\ \A ip \in IPs \ {req.ip} : hits'[ip] = hits[ip]]_vars

\* One IP is over its ceiling and answered 429 while the first request of
\* another IP is forwarded.
OtherIpAdmitted ==
    \E r, q \in Slots :
        /\ Limited429(areqs[r])
        /\ areqs[q].ip # areqs[r].ip
        /\ areqs[q].admitted
        /\ areqs[q].current = 1

NoDiagnosticsInProduction ==
    \A r \in Slots :
        LET resp == areqs[r].resp
        IN /\ env = "production" => ~resp.stack /\ ~resp.details
           /\ (resp.stack \/ resp.details) => env # "production"

\* errorHandler answered a malformed JSON body in production, bare.
ProductionErrorBare ==
    \E r \in Slots :
        /\ env = "production"
        /\ areqs[r].resp.by = "errorHandler"
        /\ areqs[r].resp.status = 400
        /\ ~areqs[r].resp.stack

\* No operation of the pool's users is in flight.
PoolQuiet == \A p \in Procs : ops[p].pc \in {"idle", "done", "up", "down"}

\* C23: every operation that borrows a connection releases it on every
\* exit path, so no connection is out of the pool when no operation is in
\* flight.
ReleasedOnEveryPath == PoolQuiet => Borrowed(pool) = 0

\* A request waits for a connection.
Waiting(r) == ops[r].pc = "wait"

\* C27: a request holds at most one connection and holds none while it
\* asks or waits for one; and every request that entered a handler comes to
\* its end, the store answering every statement.
OneConnectionPerRequest ==
    /\ [](\A r \in Slots :
            /\ pool.held[r] <= 1
            /\ ops[r].pc = "call" => pool.held[r] = 0
            /\ Queued(pool, r) => pool.held[r] = 0)
    /\ \A r \in Slots : (ops[r].pc = "call") ~> (ops[r].pc = "done")

\* A request waits, holding nothing, for the connection another request's
\* last query holds.
WaitsEmptyHanded ==
    \E r, q \in Slots :
        /\ Waiting(r)
        /\ Queued(pool, r)
        /\ pool.held[r] = 0
        /\ ops[q].pc = "exec"
        /\ Borrowed(pool) = ConnectionLimit

\* The fixed message of a route's catch block.
GenericMessage(route) ==
    CASE route = "create" -> "Failed to create order. Please try again."
      [] route = "list" -> "Failed to retrieve orders. Please try again."
      [] route = "get" -> "Failed to retrieve order. Please try again."

\* C25: a create, list or get-by-id whose store query failed is answered
\* 500 with the fixed message of its route, and the answer carries neither
\* the store error's message nor its code.
StoreFailureMasked ==
    \A r \in Slots :
        LET req == reqs[r]
        IN (Answered(r) /\ req.thrown = StoreError)
           => /\ req.resp.status = 500
              /\ req.resp.error = GenericMessage(req.route)
              /\ req.resp.error # StoreError.message
              /\ req.resp.message # StoreError.message
              /\ StoreError.code \notin {req.resp.error, req.resp.message}

\* The page query of a list failed after its count query succeeded.
PageQueryFailed ==
    \E r \in Slots :
        /\ Answered(r)
        /\ reqs[r].route = "list"
        /\ reqs[r].thrown = StoreError
        /\ Len(reqs[r].queries) = 2
        /\ reqs[r].resp.status = 500

\* The caller asked for a status the list handler does not know.
InvalidStatusAsked(req) ==
    /\ req.route = "list"
    /\ ~Falsy(req.query.status)
    /\ ~Includes(ValidStatuses, req.query.status.s)

\* The select of a get-by-id was answered by the store and matches no row.
NoRowSelected(req) ==
    /\ req.route = "get"
    /\ Len(req.queries) = 1
    /\ req.thrown = NoError
    /\ Matching(store, req.queries[1].where, req.queries[1].params) = {}

\* C26: a failure that carries a status and is raised inside the try block
\* reaches the caller unchanged: a list with an invalid status is answered
\* 400 with the message naming the valid statuses, a get-by-id whose select
\* finds no row is answered 404 "Order not found".
StatusFailuresPassThrough ==
    \A r \in Slots :
        LET req == reqs[r]
        IN Answered(r) =>
             /\ InvalidStatusAsked(req) =>
                  /\ req.resp.status = 400
                  /\ req.resp.error = "Invalid status. Must be one of: pending, confirmed, in_progress, completed, cancelled"
                  /\ req.queries = <<>>
             /\ NoRowSelected(req) =>
                  /\ req.resp.status = 404
                  /\ req.resp.error = "Order not found"

\* A get-by-id of an id no row carries was answered 404 while the store
\* held an order.
MissingOrderNotFound ==
    \E r \in Slots :
        /\ Answered(r)
        /\ NoRowSelected(reqs[r])
        /\ reqs[r].resp.status = 404
        /\ store # <<>>

\* The step is the INSERT of the create in slot r, taken by the table.
Inserts(r) == reqs[r].pc = "insert" /\ reqs'[r].pc = "readback"

\* C28: no step of any request changes or removes an order the store
\* holds; the steps of list and get-by-id, and every step of a create but
\* its INSERT, leave the store as it is, and the INSERT adds one order.
StoredOrdersFrozen ==
    [][/\ Len(store') >= Len(store)
       /\ \A i \in 1..Len(store) : store'[i] = store[i]
       /\ store' # store =>
            /\ Len(store') = Len(store) + 1
            /\ \E r \in Slots : Inserts(r)
       /\ \A r \in Slots :
            (reqs'[r] # reqs[r] /\ ~Inserts(r)) => store' = store]_vars

\* A create failed at its INSERT while the store held an order.
CreateFailedBesideOrder ==
    \E r \in Slots :
        /\ Answered(r)
        /\ reqs[r].route = "create"
        /\ reqs[r].thrown = StoreError
        /\ Len(reqs[r].queries) = 1
        /\ store # <<>>

\* The create in slot r was answered 201.
Created(r) ==
    /\ Answered(r)
    /\ reqs[r].route = "create"
    /\ reqs[r].resp.status = 201

\* C29: whatever the interleaving of creates, the order of every 201 is
\* the one its own request inserted: it carries the caller as userUid and
\* the fields of the request's payload, and no two creates are answered
\* with the same orderId.
CreateReturnsOwnOrder ==
    \A r \in Slots :
        Created(r) =>
          /\ Len(reqs[r].resp.orders) = 1
          /\ EchoesPayload(reqs[r].resp.orders[1], reqs[r].body,
                           reqs[r].st.insertId, reqs[r].user)
          /\ \A q \in Slots \ {r} :
                Created(q) => reqs[q].resp.orders[1].orderId
                                # reqs[r].resp.orders[1].orderId

\* C30: a list response holds at most as many orders as its limit and at
\* most max(0, total - offset) for the total it reports, creates handled
\* between its count query and its page query included.
PageWithinTotal ==
    \A r \in Slots :
        LET resp == reqs[r].resp
        IN (Answered(r) /\ reqs[r].route = "list" /\ resp.status = 200)
           => /\ Len(resp.orders) <= resp.pagination.limit
              /\ Len(resp.orders)
                   <= Max(0, resp.pagination.total - resp.pagination.offset)

====
